---- MODULE Spec2Model ----
(***************************************************************************)
(* Model of the scoped, cached state-guard layer of rwgl (src/gl):         *)
(* SettingsCache, the Settings::apply implementations, ComposedSetting,    *)
(* Texture::set_filter / Texture::new and ArrayBuffer::write / new, run    *)
(* against a recording model of the WebGL context calls the code issues.   *)
(***************************************************************************)
EXTENDS Integers, Sequences, FiniteSets, TLC

\* ------------------------------------------------------------------------
\* Bounds of the model
\* ------------------------------------------------------------------------
\* Every running Gl::apply costs the number of aspects chained in its
\* Setting, and 1 if its Setting is empty; the running calls together
\* never cost more than MaxCost.
MaxCost == 2

\* ------------------------------------------------------------------------
\* Program constants and value domains
\* ------------------------------------------------------------------------
TEXTURES_COUNT == 16

Units == 0 .. (TEXTURES_COUNT - 1)

TextureHandles == {"t1", "t2"}
BufferHandles == {"b1", "b2"}

\* Option<Texture> / Option<ArrayBuffer>: a wrapper is a handle plus a tag
\* telling wrapper instances (clones) of one resource apart; None has the
\* handle "none".
Wrapper(h, c) == [handle |-> h, clone |-> c]
NoneW == Wrapper("none", 0)

\* Variant: wrappers compared by instance instead of by handle.
ArrayBufferEq_ByInstance(a, b) == a = b

\* impl PartialEq for ArrayBuffer: equality of the underlying handles.
ArrayBufferEq(a, b) == a.handle = b.handle

\* impl PartialEq for TextureInfo (through the derived Texture / Rc eq).
TextureEq(a, b) == a.handle = b.handle

\* impl Default for TextureFilter
TextureFilterDefault == "Linear"

TextureFilters == {"Nearest", "Linear"}

\* Variant: the cache starts with blending recorded as on.
SettingsCacheDefault_BlendOn ==
    [blend |-> TRUE,
     depth |-> FALSE,
     active_texture |-> 0,
     array_buffer |-> NoneW,
     textures |-> [u \in Units |-> NoneW]]

\* #[derive(Default)] SettingsCache
SettingsCacheDefault ==
    [blend |-> FALSE,
     depth |-> FALSE,
     active_texture |-> 0,
     array_buffer |-> NoneW,
     textures |-> [u \in Units |-> NoneW]]

\* The state of a freshly created WebGL context, for the aspects the code
\* drives: what enable/disable, active_texture, bind_buffer and
\* bind_texture last set.
ContextDefault ==
    [blend |-> FALSE,
     depth |-> FALSE,
     active_texture |-> 0,
     array_buffer |-> "none",
     textures |-> [u \in Units |-> "none"]]

\* One recorded call to the context.
Call(fn, unit, arg, val) == [fn |-> fn, unit |-> unit, arg |-> arg, val |-> val]

\* ------------------------------------------------------------------------
\* Setting values (one aspect each)
\* ------------------------------------------------------------------------
Aspect(kind, b, index, res, filter) ==
    [kind |-> kind, b |-> b, index |-> index, res |-> res, filter |-> filter]

BlendSetting(v) == Aspect("blend", v, 0, NoneW, "")
DepthTestSetting(v) == Aspect("depth", v, 0, NoneW, "")
ActiveTextureSetting(i) == Aspect("active_texture", FALSE, i, NoneW, "")
ArrayBufferSetting(w) == Aspect("array_buffer", FALSE, 0, w, "")
TextureSetting(i, w) == Aspect("texture", FALSE, i, w, "")
TextureFilterSetting(w, f) == Aspect("texture_filter", FALSE, 0, w, f)

CachedKinds == {"blend", "depth", "active_texture", "array_buffer"}

\* The derived PartialEq of the four cached Setting types.
SettingEq(a, b) ==
    CASE a.kind = "blend" -> a.b = b.b
      [] a.kind = "depth" -> a.b = b.b
      [] a.kind = "active_texture" -> a.index = b.index
      [] a.kind = "array_buffer" -> ArrayBufferEq(a.res, b.res)

\* ------------------------------------------------------------------------
\* The machine the pure operators transform: the cache, the context, the
\* filter cell of every texture, the context calls issued so far by the
\* running operation and the number of cache writes it made; the strong
\* count of the Rc behind every resource and the delete calls the
\* operation issued, each with the cache and the context at that moment.
\* ------------------------------------------------------------------------
Machine(c, x, f, n) ==
    [cache |-> c, ctx |-> x, filter |-> f, rc |-> n,
     calls |-> <<>>, writes |-> 0, events |-> <<>>, result |-> "unit",
     drops |-> <<>>]

\* Variant: a clone that the count does not record.
CloneRc_NoCount(m, w) == m

\* Texture::clone / ArrayBuffer::clone (derived): one more strong
\* reference to the same TextureInfo / ArrayBufferData; cloning None
\* clones nothing.
CloneRc(m, w) ==
    IF w = NoneW THEN m ELSE [m EXCEPT !.rc[w.handle] = @ + 1]

\* The delete call Drop for TextureInfo / ArrayBufferData issues
Deleted(m, h) ==
    [fn |-> IF h \in TextureHandles THEN "delete_texture" ELSE "delete_buffer",
     val |-> h, at |-> Len(m.calls), cache |-> m.cache, ctx |-> m.ctx]

\* Variant: the last reference goes without the delete call.
DropRc_Leak(m, w) ==
    IF w = NoneW
    THEN m
    ELSE [m EXCEPT !.rc[w.handle] = IF @ > 0 THEN @ - 1 ELSE 0]

\* A wrapper is dropped: one strong reference less, and the drop of the
\* last one runs Drop for TextureInfo / ArrayBufferData.
DropRc(m, w) ==
    IF w = NoneW
    THEN m
    ELSE IF m.rc[w.handle] > 1
         THEN [m EXCEPT !.rc[w.handle] = @ - 1]
         ELSE [m EXCEPT !.rc[w.handle] = 0,
                        !.drops = Append(@, Deleted(m, w.handle))]

\* CachedSettings::set for each cached aspect: the context call.
set(m, a) ==
    CASE a.kind = "blend" ->
           [m EXCEPT !.ctx.blend = a.b,
                     !.calls = Append(@, Call(IF a.b THEN "enable" ELSE "disable", 0, "BLEND", ""))]
      [] a.kind = "depth" ->
           [m EXCEPT !.ctx.depth = a.b,
                     !.calls = Append(@, Call(IF a.b THEN "enable" ELSE "disable", 0, "DEPTH_TEST", ""))]
      [] a.kind = "active_texture" ->
           [m EXCEPT !.ctx.active_texture = a.index,
                     !.calls = Append(@, Call("active_texture", a.index, "", ""))]
      [] a.kind = "array_buffer" ->
           [m EXCEPT !.ctx.array_buffer = a.res.handle,
                     !.calls = Append(@, Call("bind_buffer", 0, "ARRAY_BUFFER", a.res.handle))]

\* CachedSettings::get_cached
get_cached(cache, kind) ==
    CASE kind = "blend" -> BlendSetting(cache.blend)
      [] kind = "depth" -> DepthTestSetting(cache.depth)
      [] kind = "active_texture" -> ActiveTextureSetting(cache.active_texture)
      [] kind = "array_buffer" -> ArrayBufferSetting(cache.array_buffer)

\* CachedSettings::set_cached
set_cached(m, a) ==
    CASE a.kind = "blend" ->
           [m EXCEPT !.cache.blend = a.b, !.writes = @ + 1]
      [] a.kind = "depth" ->
           [m EXCEPT !.cache.depth = a.b, !.writes = @ + 1]
      [] a.kind = "active_texture" ->
           [m EXCEPT !.cache.active_texture = a.index, !.writes = @ + 1]
      [] a.kind = "array_buffer" ->
           DropRc([CloneRc(m, a.res) EXCEPT !.cache.array_buffer = a.res,
                                            !.writes = @ + 1],
                  m.cache.array_buffer)

\* Variant: the unit is made the active one before the texture is bound.
set_texture_Activate(m, index, w) ==
    [m EXCEPT !.ctx.active_texture = index,
              !.ctx.textures[index] = w.handle,
              !.calls = @ \o <<Call("active_texture", index, "", ""),
                               Call("bind_texture", index, "", w.handle)>>]

\* TextureSetting::set_texture
set_texture(m, index, w) ==
    [m EXCEPT !.ctx.textures[index] = w.handle,
              !.calls = Append(@, Call("bind_texture", index, "", w.handle))]

\* cache.borrow_mut().textures[index] = w: the slot takes the wrapper and
\* the one it held is dropped.
StoreTexture(m, index, w) ==
    DropRc([m EXCEPT !.cache.textures[index] = w, !.writes = @ + 1],
           m.cache.textures[index])

\* What one apply keeps across its callback: whether it changed the state
\* and the value to put back (old_value / previous).
Saved(changed, old) == [changed |-> changed, old |-> old]

\* The outcome of the part of an apply that runs up to its callback:
\* the machine, the saved value, whether it panicked instead of reaching
\* the callback, and how many times the branch taken calls callback().
Entered(m, saved, panicked, callback) ==
    [m |-> m, saved |-> saved, panicked |-> panicked, callback |-> callback]

\* Variant: the new value is cached but never sent to the context.
CachedEnter_NoSet(m, a) ==
    LET old_value == get_cached(m.cache, a.kind)
        m0 == CloneRc(m, old_value.res)
    IN  IF SettingEq(a, old_value)
        THEN Entered(m0, Saved(FALSE, old_value), FALSE, 1)
        ELSE Entered(set_cached(m0, a), Saved(TRUE, old_value), FALSE, 1)

\* impl<T: CachedSettings> Settings for T :: apply, up to callback()
CachedEnter(m, a) ==
    LET old_value == get_cached(m.cache, a.kind)
        m0 == CloneRc(m, old_value.res)
    IN  IF SettingEq(a, old_value)
        THEN Entered(m0, Saved(FALSE, old_value), FALSE, 1)
        ELSE Entered(set(set_cached(m0, a), a), Saved(TRUE, old_value), FALSE, 1)

\* Variant: the cache is put back but the context is not.
CachedExit_NoSet(m, a, s) ==
    IF s.changed
    THEN DropRc(set_cached(m, s.old), s.old.res)
    ELSE DropRc(m, s.old.res)

\* impl<T: CachedSettings> Settings for T :: apply, after callback();
\* old_value is dropped when the function returns.
CachedExit(m, a, s) ==
    IF s.changed
    THEN DropRc(set_cached(set(m, s.old), s.old), s.old.res)
    ELSE DropRc(m, s.old.res)

\* Variant: the slot is taken to have been empty instead of reading what
\* the cache held.
TextureEnter_ForgetPrevious(m, a) ==
    IF a.index >= TEXTURES_COUNT
    THEN Entered(m, Saved(FALSE, a), TRUE, 0)
    ELSE LET m1 == StoreTexture(CloneRc(m, a.res), a.index, a.res)
         IN  Entered(set_texture(m1, a.index, a.res),
                     Saved(TRUE, TextureSetting(a.index, NoneW)), FALSE, 1)

\* Variant: the texture is bound before the slot index is checked.
TextureEnter_BindFirst(m, a) ==
    IF a.index >= TEXTURES_COUNT
    THEN Entered(set_texture(m, a.index, a.res), Saved(FALSE, a), TRUE, 0)
    ELSE LET previous == m.cache.textures[a.index]
             m1 == StoreTexture(CloneRc(CloneRc(m, previous), a.res),
                                a.index, a.res)
         IN  Entered(set_texture(m1, a.index, a.res),
                     Saved(TRUE, TextureSetting(a.index, previous)), FALSE, 1)

\* impl Settings for TextureSetting :: apply, up to callback(); indexing
\* the 16-slot array with an index out of range panics before any write.
TextureEnter(m, a) ==
    IF a.index >= TEXTURES_COUNT
    THEN Entered(m, Saved(FALSE, a), TRUE, 0)
    ELSE LET previous == m.cache.textures[a.index]
             m1 == StoreTexture(CloneRc(CloneRc(m, previous), a.res),
                                a.index, a.res)
         IN  Entered(set_texture(m1, a.index, a.res),
                     Saved(TRUE, TextureSetting(a.index, previous)), FALSE, 1)

\* Variant: the unit is unbound on exit instead of rebound to the previous
\* texture.
TextureExit_Unbind(m, a, s) ==
    LET m1 == set_texture(m, a.index, NoneW)
    IN  DropRc(StoreTexture(m1, a.index, NoneW), s.old.res)

\* Variant: the context is rebound but the cache slot is not put back.
TextureExit_NoCacheRestore(m, a, s) ==
    DropRc(set_texture(m, a.index, s.old.res), s.old.res)

\* impl Settings for TextureSetting :: apply, after callback(); previous
\* is moved into the slot.
TextureExit(m, a, s) ==
    LET m1 == set_texture(m, a.index, s.old.res)
    IN  StoreTexture(m1, a.index, s.old.res)

\* Variant: the filter is sent to the context without comparing it with
\* the cached one.
set_filter_Always(m, w, f) ==
    LET s == TextureSetting(0, w)
        e == TextureEnter(CloneRc(m, w), s)
        m1 == [e.m EXCEPT
                 !.calls = @ \o <<Call("tex_parameteri", 0, "TEXTURE_MAG_FILTER", f),
                                  Call("tex_parameteri", 0, "TEXTURE_MIN_FILTER", f)>>,
                 !.filter[w.handle] = f]
    IN  DropRc(TextureExit(m1, s, e.saved), w)

\* Variant: the texture is bound at unit 1 for the parameter calls.
set_filter_Unit1(m, w, f) ==
    IF m.filter[w.handle] # f
    THEN LET s == TextureSetting(1, w)
             e == TextureEnter(CloneRc(m, w), s)
             m1 == [e.m EXCEPT
                      !.calls = @ \o <<Call("tex_parameteri", 0, "TEXTURE_MAG_FILTER", f),
                                       Call("tex_parameteri", 0, "TEXTURE_MIN_FILTER", f)>>,
                      !.filter[w.handle] = f]
         IN  DropRc(TextureExit(m1, s, e.saved), w)
    ELSE m

\* Texture::set_filter; the Setting holds self.clone() until Gl::apply
\* returns.
set_filter(m, w, f) ==
    IF m.filter[w.handle] # f
    THEN LET s == TextureSetting(0, w)
             e == TextureEnter(CloneRc(m, w), s)
             m1 == [e.m EXCEPT
                      !.calls = @ \o <<Call("tex_parameteri", 0, "TEXTURE_MAG_FILTER", f),
                                       Call("tex_parameteri", 0, "TEXTURE_MIN_FILTER", f)>>,
                      !.filter[w.handle] = f]
         IN  DropRc(TextureExit(m1, s, e.saved), w)
    ELSE m

\* impl Settings for TextureFilterSetting :: apply, up to callback()
TextureFilterEnter(m, a) ==
    LET previous == m.filter[a.res.handle]
    IN  Entered(set_filter(m, a.res, a.filter),
                Saved(TRUE, TextureFilterSetting(a.res, previous)), FALSE, 1)

\* Variant: the filter is left as the scope set it.
TextureFilterExit_Keep(m, a, s) == m

\* impl Settings for TextureFilterSetting :: apply, after callback()
TextureFilterExit(m, a, s) == set_filter(m, a.res, s.old.filter)

\* Settings::apply of one aspect, up to its callback
Enter(m, a) ==
    LET m1 == [m EXCEPT !.events = Append(@, [ev |-> "enter", a |-> a])]
    IN  CASE a.kind \in CachedKinds -> CachedEnter(m1, a)
          [] a.kind = "texture" -> TextureEnter(m1, a)
          [] a.kind = "texture_filter" -> TextureFilterEnter(m1, a)

\* Settings::apply of one aspect, after its callback
Exit(m, a, s) ==
    LET m1 == [m EXCEPT !.events = Append(@, [ev |-> "exit", a |-> a])]
    IN  CASE a.kind \in CachedKinds -> CachedExit(m1, a, s)
          [] a.kind = "texture" -> TextureExit(m1, a, s)
          [] a.kind = "texture_filter" -> TextureFilterExit(m1, a, s)

\* Variant: the empty Setting switches blending off before it runs the
\* callback.
RECURSIVE EnterChain_EmptyResets(_, _)
EnterChain_EmptyResets(m, chain) ==
    IF chain = <<>>
    THEN Entered(set(set_cached(m, BlendSetting(FALSE)), BlendSetting(FALSE)),
                 <<>>, FALSE, 1)
    ELSE LET left == EnterChain_EmptyResets(m, SubSeq(chain, 1, Len(chain) - 1))
         IN  IF left.panicked \/ left.callback = 0
             THEN left
             ELSE LET right == Enter(left.m, chain[Len(chain)])
                  IN  Entered(right.m, Append(left.saved, right.saved),
                              right.panicked, left.callback * right.callback)

\* A Setting built by chaining aspects onto Gl::settings() is the
\* left-nested ComposedSetting(ComposedSetting(EmptySetting, a1), a2) ...,
\* written here as the sequence <<a1, a2, ...>>.
\* ComposedSetting::apply / EmptySetting::apply, up to the callback:
\* self.0 is entered, and inside its callback self.1.
RECURSIVE EnterChain(_, _)
EnterChain(m, chain) ==
    IF chain = <<>>
    THEN Entered(m, <<>>, FALSE, 1)
    ELSE LET left == EnterChain(m, SubSeq(chain, 1, Len(chain) - 1))
         IN  IF left.panicked \/ left.callback = 0
             THEN left
             ELSE LET right == Enter(left.m, chain[Len(chain)])
                  IN  Entered(right.m, Append(left.saved, right.saved),
                              right.panicked, left.callback * right.callback)

\* Variant: the aspects are left in the order they were entered.
RECURSIVE ExitChain_Forward(_, _, _)
ExitChain_Forward(m, chain, saved) ==
    IF chain = <<>>
    THEN m
    ELSE ExitChain_Forward(Exit(m, chain[1], saved[1]), Tail(chain), Tail(saved))

\* ComposedSetting::apply / EmptySetting::apply, after the callback:
\* self.1 returns into the callback of self.0, which then returns.
RECURSIVE ExitChain(_, _, _)
ExitChain(m, chain, saved) ==
    IF chain = <<>>
    THEN m
    ELSE ExitChain(Exit(m, chain[Len(chain)], saved[Len(chain)]),
                   SubSeq(chain, 1, Len(chain) - 1),
                   SubSeq(saved, 1, Len(chain) - 1))

\* Variant: the upload is issued without a scope binding the buffer.
write_NoScope(m, w) ==
    [m EXCEPT !.calls = Append(@, Call("buffer_data", 0, "ARRAY_BUFFER",
                                       m.ctx.array_buffer)),
              !.events = Append(@, [ev |-> "upload",
                                    a |-> get_cached(m.cache, "array_buffer")])]

\* ArrayBuffer::write.  The upload goes to the buffer the context has
\* bound at ARRAY_BUFFER: the recorded call names it, and the recorded
\* event names the buffer the cache holds at that moment.
write(m, w) ==
    LET s == ArrayBufferSetting(w)
        e == CachedEnter(CloneRc(m, w), s)
        m1 == [e.m EXCEPT
                 !.calls = Append(@, Call("buffer_data", 0, "ARRAY_BUFFER",
                                          e.m.ctx.array_buffer)),
                 !.events = Append(@, [ev |-> "upload",
                                       a |-> get_cached(e.m.cache, "array_buffer")])]
    IN  DropRc(CachedExit(m1, s, e.saved), w)

\* The body of Texture::new after the handle is created: the image upload
\* inside a scope binding the new texture at unit 0.
texture_new(m, w) ==
    LET s == TextureSetting(0, w)
        m0 == [m EXCEPT !.filter[w.handle] = TextureFilterDefault]
        e == TextureEnter(CloneRc(m0, w), s)
        m1 == [e.m EXCEPT !.calls = Append(@, Call("tex_image_2d", 0, "", ""))]
    IN  DropRc(TextureExit(m1, s, e.saved), w)

\* The Setting passed to Gl::apply holds one wrapper per aspect that
\* names a resource.
RECURSIVE CloneChain(_, _)
CloneChain(m, chain) ==
    IF chain = <<>>
    THEN m
    ELSE CloneChain(CloneRc(m, chain[1].res), Tail(chain))

\* The Setting is dropped when Gl::apply returns: the aspects in the
\* order they were chained.
RECURSIVE DropChain(_, _)
DropChain(m, chain) ==
    IF chain = <<>>
    THEN m
    ELSE DropChain(DropRc(m, chain[1].res), Tail(chain))

\* The wrapper an apply holds in a local across its callback: old_value
\* of the generic apply, previous of TextureSetting::apply.
Kept(a, s) ==
    IF a.kind = "array_buffer" \/ (a.kind = "texture" /\ s.changed)
    THEN s.old.res
    ELSE NoneW

\* A panic unwinds one Gl::apply: the locals of the applies it entered,
\* innermost first, then its Setting.
RECURSIVE Unwind(_, _, _)
Unwind(m, chain, saved) ==
    IF saved = <<>>
    THEN DropChain(m, chain)
    ELSE Unwind(DropRc(m, Kept(chain[Len(saved)], saved[Len(saved)])),
                chain, SubSeq(saved, 1, Len(saved) - 1))

\* A panic unwinds every running Gl::apply, innermost first.
RECURSIVE UnwindStack(_, _)
UnwindStack(m, st) ==
    IF st = <<>>
    THEN m
    ELSE UnwindStack(Unwind(m, st[Len(st)].chain, st[Len(st)].saved),
                     SubSeq(st, 1, Len(st) - 1))

\* ------------------------------------------------------------------------
\* State
\* ------------------------------------------------------------------------
VARIABLES
    cache,      \* GlInfo.settings_cache
    ctx,        \* the state of the WebGL context behind GlInfo.context
    filter,     \* TextureInfo.filter of every texture ("absent": not created)
    buffers,    \* the handles of the ArrayBuffers created so far
    rc,         \* the strong count of the Rc behind every resource
    deletes,    \* the delete calls issued so far for every handle
    held,       \* the wrappers the caller holds
    stack,      \* the Gl::apply calls whose work closure is running
    aborted,    \* a panic has unwound out of the outermost call
    last,       \* what the last operation did (calls issued, cache writes)
    family      \* the family of aspects this session chains

vars == <<cache, ctx, filter, buffers, rc, deletes, held, stack, aborted,
          last, family>>

Snapshot(c, x, f) == [cache |-> c, ctx |-> x, filter |-> f]

Now == Snapshot(cache, ctx, filter)

\* One running Gl::apply: its Setting, what each aspect saved, the state
\* when it was called, what entering issued, and how many times the
\* callback was called.
Frame(chain, e, pre) ==
    [chain |-> chain, saved |-> e.saved, pre |-> pre,
     entry |-> e.m.calls, entryWrites |-> e.m.writes,
     entered |-> e.m.events, invoked |-> e.callback,
     filtered |-> {}]

\* The record of an operation: its name and Setting, the context calls it
\* issued, the cache writes it made, the applies it entered or left, the
\* value it returned, the state before it, the calls it returned from or
\* unwound, and the value the work closure returned.
Last(op, chain, m, before, frames, work) ==
    [op |-> op, chain |-> chain, calls |-> m.calls, writes |-> m.writes,
     events |-> m.events, result |-> m.result, before |-> before,
     frames |-> frames, work |-> work, drops |-> m.drops]

\* ------------------------------------------------------------------------
\* Inputs
\* ------------------------------------------------------------------------
\* A session draws the aspects it chains from one of four families: the
\* flags and the array buffer; the blend flag, the texture bindings and
\* the texture filter; and, for sessions in which the caller clones and
\* drops wrappers, the array buffer alone or the texture bindings and the
\* texture filter alone.
Families == {"buffers", "textures", "buffer_lifetimes", "texture_lifetimes"}

BufferFamilies == {"buffers", "buffer_lifetimes"}
TextureFamilies == {"textures", "texture_lifetimes"}
LifetimeFamilies == {"buffer_lifetimes", "texture_lifetimes"}

Handles == TextureHandles \cup BufferHandles

\* The handles the caller holds a wrapper of
HeldHandles == {w.handle : w \in held}

\* The handles of the textures created so far
Textures == {h \in TextureHandles : filter[h] # "absent"}

\* The wrappers write is called on: the first instance of each buffer
\* the caller holds.
BufferWrappers == {Wrapper(h, 0) : h \in buffers \cap HeldHandles}

\* The buffers a Setting binds: two wrapper instances (clones) of the
\* first buffer, one of the second; one of each where wrappers are
\* dropped.
BufferInputs ==
    {w \in {Wrapper("b1", 0), Wrapper("b1", 1), Wrapper("b2", 0)} :
        /\ w.handle \in buffers \cap HeldHandles
        /\ family \in LifetimeFamilies => w.clone = 0}

\* The (unit, texture) pairs a Setting binds: two units in range and the
\* first unit out of range; two wrapper instances of the first texture.
\* Where wrappers are dropped: each texture at unit 0, the first at the
\* first unit out of range.
TextureInputs ==
    {p \in {<<0, Wrapper("t1", 0)>>, <<0, Wrapper("t1", 1)>>,
            <<0, Wrapper("t2", 0)>>, <<1, Wrapper("t1", 0)>>,
            <<TEXTURES_COUNT, Wrapper("t1", 0)>>} :
        /\ p[2].handle \in Textures \cap HeldHandles
        /\ family \in LifetimeFamilies => p[1] # 1 /\ p[2].clone = 0}

\* The textures whose filter a session changes
FilterInputs ==
    {w \in {Wrapper("t1", 0)} : w.handle \in Textures \cap HeldHandles}

\* The filters a Setting scopes
FilterValues ==
    IF family \in LifetimeFamilies THEN {"Nearest"} ELSE TextureFilters

\* The wrappers a caller clones: the first instance of the first buffer
\* and of the first texture, once.
CloneInputs ==
    {w \in {Wrapper("b1", 0), Wrapper("t1", 0)} :
        /\ family \in LifetimeFamilies
        /\ w \in held
        /\ Wrapper(w.handle, 1) \notin held}

\* The wrappers a caller drops: those of the first buffer and of the
\* first texture, the clone before the wrapper it was cloned from.
ReleaseInputs ==
    {w \in held : /\ family \in LifetimeFamilies
                  /\ w.handle \in {"b1", "t1"}
                  /\ w.clone = 0 => Wrapper(w.handle, 1) \notin held}

\* The aspects the chaining methods of Settings can add.
Aspects ==
    CASE family = "buffers" ->
           {BlendSetting(v) : v \in BOOLEAN}
           \cup {DepthTestSetting(v) : v \in BOOLEAN}
           \cup {ArrayBufferSetting(w) : w \in BufferInputs}
      [] family = "textures" ->
           {BlendSetting(v) : v \in BOOLEAN}
           \cup {TextureSetting(p[1], p[2]) : p \in TextureInputs}
           \cup {TextureFilterSetting(w, f) : w \in FilterInputs, f \in FilterValues}
      [] family = "buffer_lifetimes" ->
           {ArrayBufferSetting(w) : w \in BufferInputs}
      [] family = "texture_lifetimes" ->
           {TextureSetting(p[1], p[2]) : p \in TextureInputs}
           \cup {TextureFilterSetting(w, f) : w \in FilterInputs, f \in FilterValues}

\* The Settings of at most n aspects; none when nothing more is affordable
Chains(n) == IF n < 1 THEN {} ELSE UNION {[1 .. k -> Aspects] : k \in 0 .. n}

Results == {"r1", "r2"}

RECURSIVE Cost(_)
Cost(st) ==
    IF st = <<>>
    THEN 0
    ELSE (IF st[1].chain = <<>> THEN 1 ELSE Len(st[1].chain)) + Cost(Tail(st))

\* ------------------------------------------------------------------------
\* Init: the state Gl::new leaves
\* ------------------------------------------------------------------------
Init ==
    /\ cache = SettingsCacheDefault
    /\ ctx = ContextDefault
    /\ filter = [h \in TextureHandles |-> "absent"]
    /\ buffers = {}
    /\ aborted = FALSE
    /\ rc = [h \in Handles |-> 0]
    /\ deletes = [h \in Handles |-> 0]
    /\ held = {}
    /\ stack = <<>>
    /\ family \in Families
    /\ last = [op |-> "idle", chain |-> <<>>, calls |-> <<>>, writes |-> 0,
               events |-> <<>>, result |-> "unit",
               before |-> Snapshot(SettingsCacheDefault, ContextDefault,
                                   [h \in TextureHandles |-> "absent"]),
               frames |-> <<>>, work |-> "unit", drops |-> <<>>]

\* ------------------------------------------------------------------------
\* Actions
\* ------------------------------------------------------------------------
Commit(m) ==
    /\ cache' = m.cache
    /\ ctx' = m.ctx
    /\ filter' = m.filter
    /\ rc' = m.rc
    /\ deletes' = [h \in Handles |->
                     deletes[h] + Cardinality({i \in DOMAIN m.drops :
                                                 m.drops[i].val = h})]

\* No operation has run since the record of the last one was cleared.
Idle == [op |-> "idle", chain |-> <<>>, calls |-> <<>>, writes |-> 0,
         events |-> <<>>, result |-> "unit",
         before |-> Snapshot(SettingsCacheDefault, ContextDefault,
                             [h \in TextureHandles |-> "absent"]),
         frames |-> <<>>, work |-> "unit", drops |-> <<>>]

\* An operation may start: nothing has panicked and the record is clear.
Ready == ~aborted /\ last = Idle

\* The record of the last operation is cleared before the next one runs.
Reset ==
    /\ ~aborted
    /\ last # Idle
    /\ last' = Idle
    /\ UNCHANGED <<cache, ctx, filter, buffers, rc, deletes, held, stack,
                   aborted, family>>

\* Gl::apply(settings, callback) is called, from the top level or from a
\* running work closure, with a Setting holding clones of the caller's
\* wrappers, and runs up to the start of its callback; an aspect that
\* panics on entry unwinds every running call.
Apply(chain) ==
    /\ Ready
    /\ LET e == EnterChain(CloneChain(Machine(cache, ctx, filter, rc), chain),
                            chain)
           u == UnwindStack(Unwind(e.m, chain, e.saved), stack)
       IN  IF e.panicked
           THEN /\ Commit(u)
                /\ stack' = <<>>
                /\ aborted' = TRUE
                /\ last' = Last("apply_panic", chain, u, Now,
                                Append(stack, Frame(chain, e, Now)), "unit")
           ELSE /\ Commit(e.m)
                /\ stack' = Append(stack, Frame(chain, e, Now))
                /\ aborted' = FALSE
                /\ last' = Last("apply", chain, e.m, Now, <<>>, "unit")
    /\ UNCHANGED <<buffers, held, family>>

\* The innermost running work closure returns r; its Gl::apply restores,
\* drops its Setting and returns.
Return(r) ==
    /\ Ready
    /\ stack # <<>>
    /\ LET f == stack[Len(stack)]
           m0 == [Machine(cache, ctx, filter, rc) EXCEPT !.result = r]
           m == DropChain(ExitChain(m0, f.chain, f.saved), f.chain)
       IN  /\ Commit(m)
           /\ last' = Last("return", f.chain, m, Now, <<f>>, r)
    /\ stack' = SubSeq(stack, 1, Len(stack) - 1)
    /\ UNCHANGED <<buffers, held, aborted, family>>

\* The innermost running work closure panics: the unwinding leaves every
\* running apply without running the statements after callback(), and
\* drops what each of them holds.
Panic ==
    /\ Ready
    /\ stack # <<>>
    /\ stack' = <<>>
    /\ aborted' = TRUE
    /\ LET m == UnwindStack(Machine(cache, ctx, filter, rc), stack)
       IN  /\ Commit(m)
           /\ last' = Last("panic", <<>>, m, Now, stack, "unit")
    /\ UNCHANGED <<buffers, held, family>>

\* Texture::set_filter(filter) on a wrapper of a created texture, called
\* from the top level or from a running work closure; every running call
\* notes that its work has set this texture's filter.
SetFilter(w, f) ==
    /\ Ready
    /\ LET m == set_filter(Machine(cache, ctx, filter, rc), w, f)
       IN  /\ Commit(m)
           /\ last' = Last("set_filter", <<TextureFilterSetting(w, f)>>, m, Now, <<>>, "unit")
    /\ stack' = [i \in DOMAIN stack |->
                   [stack[i] EXCEPT !.filtered = @ \cup {w.handle}]]
    /\ UNCHANGED <<buffers, held, aborted, family>>

\* ArrayBuffer::write on a wrapper of a created buffer
Write(w) ==
    /\ Ready
    /\ LET m == write(Machine(cache, ctx, filter, rc), w)
       IN  /\ Commit(m)
           /\ last' = Last("write", <<ArrayBufferSetting(w)>>, m, Now, <<>>, "unit")
    /\ UNCHANGED <<buffers, held, stack, aborted, family>>

\* A caller clones a wrapper it holds.
Clone(w) ==
    /\ Ready
    /\ LET m == CloneRc(Machine(cache, ctx, filter, rc), w)
       IN  /\ Commit(m)
           /\ last' = Last("clone", <<>>, m, Now, <<>>, "unit")
    /\ held' = held \cup {Wrapper(w.handle, 1)}
    /\ UNCHANGED <<buffers, stack, aborted, family>>

\* A caller drops a wrapper it holds, at the top level or inside a
\* running work closure.
Release(w) ==
    /\ Ready
    /\ LET m == DropRc(Machine(cache, ctx, filter, rc), w)
       IN  /\ Commit(m)
           /\ last' = Last("release", <<>>, m, Now, <<>>, "unit")
    /\ held' = held \ {w}
    /\ UNCHANGED <<buffers, stack, aborted, family>>

\* The handle the context hands out next
NextHandle(all, used) == IF "t1" \in all \ used THEN "t1"
                         ELSE IF "b1" \in all \ used THEN "b1"
                         ELSE CHOOSE h \in all \ used : TRUE

\* ArrayBuffer::new: create_buffer().unwrap(), then write
NewBuffer(ok) ==
    /\ Ready
    /\ family \in BufferFamilies
    /\ buffers # BufferHandles
    /\ LET h == NextHandle(BufferHandles, buffers)
           m0 == [Machine(cache, ctx, filter, rc) EXCEPT
                    !.calls = <<Call("create_buffer", 0, "", "")>>]
       IN  IF ok
           THEN LET m == write([m0 EXCEPT !.rc[h] = 1], Wrapper(h, 0))
                IN  /\ Commit(m)
                    /\ buffers' = buffers \cup {h}
                    /\ held' = held \cup {Wrapper(h, 0)}
                    /\ last' = Last("new_buffer", <<ArrayBufferSetting(Wrapper(h, 0))>>,
                                    m, Now, <<>>, "unit")
                    /\ UNCHANGED <<stack, aborted, family>>
           ELSE LET u == UnwindStack(m0, stack)
                IN  /\ Commit(u)
                    /\ stack' = <<>>
                    /\ aborted' = TRUE
                    /\ last' = Last("new_buffer_panic", <<>>, u, Now, stack, "unit")
                    /\ UNCHANGED <<buffers, held, family>>

\* Texture::new: create_texture().unwrap(), then the upload in a scope
NewTexture(ok) ==
    /\ Ready
    /\ family \in TextureFamilies
    /\ Textures # TextureHandles
    /\ LET h == NextHandle(TextureHandles, Textures)
           m0 == [Machine(cache, ctx, filter, rc) EXCEPT
                    !.calls = <<Call("create_texture", 0, "", "")>>]
       IN  IF ok
           THEN LET m == texture_new([m0 EXCEPT !.rc[h] = 1], Wrapper(h, 0))
                IN  /\ Commit(m)
                    /\ held' = held \cup {Wrapper(h, 0)}
                    /\ last' = Last("new_texture", <<TextureSetting(0, Wrapper(h, 0))>>,
                                    m, Now, <<>>, "unit")
                    /\ UNCHANGED <<buffers, stack, aborted, family>>
           ELSE LET u == UnwindStack(m0, stack)
                IN  /\ Commit(u)
                    /\ stack' = <<>>
                    /\ aborted' = TRUE
                    /\ last' = Last("new_texture_panic", <<>>, u, Now, stack, "unit")
                    /\ UNCHANGED <<buffers, held, family>>

Next ==
    \/ \E chain \in Chains(MaxCost - Cost(stack)) : Apply(chain)
    \/ \E r \in Results : Return(r)
    \/ Panic
    \/ \E w \in FilterInputs, f \in TextureFilters : SetFilter(w, f)
    \/ \E w \in BufferWrappers : Write(w)
    \/ \E w \in CloneInputs : Clone(w)
    \/ \E w \in ReleaseInputs : Release(w)
    \/ \E ok \in BOOLEAN : NewBuffer(ok)
    \/ \E ok \in BOOLEAN : NewTexture(ok)
    \/ Reset

Spec == Init /\ [][Next]_vars

\* cache and context agree on every tracked aspect
Agree(c, x) ==
    /\ c.blend = x.blend
    /\ c.depth = x.depth
    /\ c.active_texture = x.active_texture
    /\ c.array_buffer.handle = x.array_buffer
    /\ \A u \in Units : c.textures[u].handle = x.textures[u]

\* ------------------------------------------------------------------------
\* Vocabulary of the properties
\* ------------------------------------------------------------------------
\* The running call whose work closure is executing
Top == stack[Len(stack)]

\* The call the last operation returned from
Returned == last.frames[1]

SlotKinds == CachedKinds \cup {"texture"}

\* The value the cache holds in the slot an aspect names (by handle)
CacheSlot(c, a) ==
    CASE a.kind = "blend" -> IF c.blend THEN "true" ELSE "false"
      [] a.kind = "depth" -> IF c.depth THEN "true" ELSE "false"
      [] a.kind = "active_texture" -> IF c.active_texture = 0 THEN "0" ELSE "other"
      [] a.kind = "array_buffer" -> c.array_buffer.handle
      [] a.kind = "texture" -> c.textures[a.index].handle

\* The value the context holds in the slot an aspect names
CtxSlot(x, a) ==
    CASE a.kind = "blend" -> IF x.blend THEN "true" ELSE "false"
      [] a.kind = "depth" -> IF x.depth THEN "true" ELSE "false"
      [] a.kind = "active_texture" -> IF x.active_texture = 0 THEN "0" ELSE "other"
      [] a.kind = "array_buffer" -> x.array_buffer
      [] a.kind = "texture" -> x.textures[a.index]

\* The value an aspect asks for, as the slot would hold it
Wanted(a) ==
    CASE a.kind \in {"blend", "depth"} -> IF a.b THEN "true" ELSE "false"
      [] a.kind = "active_texture" -> IF a.index = 0 THEN "0" ELSE "other"
      [] a.kind \in {"array_buffer", "texture"} -> a.res.handle

NamesFilterOf(chain, h) ==
    \E i \in DOMAIN chain :
        chain[i].kind = "texture_filter" /\ chain[i].res.handle = h

\* ------------------------------------------------------------------------
\* C1
\* ------------------------------------------------------------------------
\* C1 as stated: when Gl::apply returns normally, the cache, the context
\* and the filter cell of every texture that existed at the call equal
\* their values immediately before the call.
C1_RestoredWithEveryFilter ==
    last.op = "return" =>
        /\ cache = Returned.pre.cache
        /\ ctx = Returned.pre.ctx
        /\ \A h \in TextureHandles :
              Returned.pre.filter[h] # "absent" => filter[h] = Returned.pre.filter[h]

\* C1 amended: when Gl::apply(S, work) returns normally, the cache and the
\* context equal their values immediately before the call, and so does the
\* filter cell of every texture that S names in a texture_filter aspect or
\* on which work (at any depth) called no set_filter.
C1_Restored ==
    last.op = "return" =>
        /\ cache = Returned.pre.cache
        /\ ctx = Returned.pre.ctx
        /\ \A h \in TextureHandles :
              (/\ Returned.pre.filter[h] # "absent"
               /\ (h \notin Returned.filtered \/ NamesFilterOf(Returned.chain, h)))
              => filter[h] = Returned.pre.filter[h]

\* A call that bound a texture and scoped a filter, and whose work set the
\* filter of that texture, has returned.
C1_Witness ==
    /\ last.op = "return"
    /\ Len(Returned.chain) = 2
    /\ \E i \in DOMAIN Returned.chain : Returned.chain[i].kind = "texture"
    /\ NamesFilterOf(Returned.chain, "t1")
    /\ "t1" \in Returned.filtered
    /\ last.calls # <<>>

\* ------------------------------------------------------------------------
\* C2
\* ------------------------------------------------------------------------
\* C2: after the work closure has exited by a panic, the cache and the
\* context hold, for every aspect of every Setting that was being applied,
\* the value they held before that Setting was applied.
C2_RestoredAfterPanic ==
    last.op = "panic" =>
        \A i \in DOMAIN last.frames :
            \A j \in DOMAIN last.frames[i].chain :
                LET f == last.frames[i]
                    a == f.chain[j]
                IN  a.kind \in SlotKinds =>
                        /\ CacheSlot(cache, a) = CacheSlot(f.pre.cache, a)
                        /\ CtxSlot(ctx, a) = CtxSlot(f.pre.ctx, a)

\* ------------------------------------------------------------------------
\* C3
\* ------------------------------------------------------------------------
\* A Blend, DepthTest or ArrayBuffer Setting asking for what the cache holds
NoOpFor(chain, c) ==
    /\ Len(chain) = 1
    /\ chain[1].kind \in {"blend", "depth", "array_buffer"}
    /\ Wanted(chain[1]) = CacheSlot(c, chain[1])

\* C3: applying a Blend, DepthTest or ArrayBuffer Setting whose value equals
\* the cached one (for a buffer: the same handle, whichever wrapper) issues
\* no context call and writes nothing to the cache, neither when the scope
\* is entered nor when it is left; the work closure runs.
C3_NoOp ==
    /\ (last.op = "apply" /\ NoOpFor(last.chain, last.before.cache)) =>
           /\ last.calls = <<>>
           /\ last.writes = 0
           /\ cache = last.before.cache
           /\ Top.invoked = 1
    /\ (last.op = "return" /\ NoOpFor(Returned.chain, Returned.pre.cache)) =>
           /\ Returned.entry = <<>>
           /\ Returned.entryWrites = 0
           /\ last.calls = <<>>
           /\ last.writes = 0

\* A scope asking for another wrapper instance of the bound buffer has
\* been entered and left.
C3_Witness ==
    /\ last.op = "return"
    /\ Returned.chain = <<ArrayBufferSetting(Wrapper("b1", 1))>>
    /\ Returned.pre.cache.array_buffer = Wrapper("b1", 0)

\* ------------------------------------------------------------------------
\* C4
\* ------------------------------------------------------------------------
BindCalls(calls) == SelectSeq(calls, LAMBDA c : c.fn = "bind_texture")

\* A Setting texture(N, T') where the cache records a texture with the
\* handle of T' at unit N
AlreadyBound(chain, c) ==
    /\ Len(chain) = 1
    /\ chain[1].kind = "texture"
    /\ chain[1].index < TEXTURES_COUNT
    /\ TextureEq(chain[1].res, c.textures[chain[1].index])

\* C4: applying texture(N, T') while the cache records a texture with the
\* same handle at unit N issues no bind_texture call, neither on scope
\* entry nor on scope exit.
C4_NoRebind ==
    /\ (last.op = "apply" /\ AlreadyBound(last.chain, last.before.cache)) =>
           BindCalls(last.calls) = <<>>
    /\ (last.op = "return" /\ AlreadyBound(Returned.chain, Returned.pre.cache)) =>
           BindCalls(Returned.entry) = <<>> /\ BindCalls(last.calls) = <<>>

\* ------------------------------------------------------------------------
\* C5
\* ------------------------------------------------------------------------
\* The context call that sets the value a cached aspect asks for
SetCall(a) ==
    CASE a.kind = "blend" -> Call(IF a.b THEN "enable" ELSE "disable", 0, "BLEND", "")
      [] a.kind = "depth" -> Call(IF a.b THEN "enable" ELSE "disable", 0, "DEPTH_TEST", "")
      [] a.kind = "array_buffer" -> Call("bind_buffer", 0, "ARRAY_BUFFER", a.res.handle)

Sel(cond, c) == IF cond THEN <<c>> ELSE <<>>

Differs(a, c) == Wanted(a) # CacheSlot(c, a)

Reverse(q) == [i \in 1 .. Len(q) |-> q[Len(q) + 1 - i]]

EventAspects(ev) == [i \in 1 .. Len(ev) |-> ev[i].a]

\* C5: for a Setting chaining two cached aspects A, B on different slots,
\* entering issues A.set(new) if A differs from the cache, then B.set(new)
\* if B differs, and leaving issues B.set(old) if B differed, then
\* A.set(old) if A differed, with as many cache writes; an aspect equal to
\* the cache issues no call and no write.  For every chain the aspects are
\* left in the exact reverse order in which they were entered.
C5_Order ==
    last.op = "return" =>
        /\ EventAspects(Returned.entered) = Returned.chain
        /\ EventAspects(last.events) = Reverse(Returned.chain)
        /\ \A i \in DOMAIN last.events : last.events[i].ev = "exit"
        /\ (/\ Len(Returned.chain) = 2
            /\ Returned.chain[1].kind \in {"blend", "depth", "array_buffer"}
            /\ Returned.chain[2].kind \in {"blend", "depth", "array_buffer"}
            /\ Returned.chain[1].kind # Returned.chain[2].kind) =>
               LET A == Returned.chain[1]
                   B == Returned.chain[2]
                   dA == Differs(A, Returned.pre.cache)
                   dB == Differs(B, Returned.pre.cache)
                   oldA == get_cached(Returned.pre.cache, A.kind)
                   oldB == get_cached(Returned.pre.cache, B.kind)
                   n == (IF dA THEN 1 ELSE 0) + (IF dB THEN 1 ELSE 0)
               IN  /\ Returned.entry = Sel(dA, SetCall(A)) \o Sel(dB, SetCall(B))
                   /\ last.calls = Sel(dB, SetCall(oldB)) \o Sel(dA, SetCall(oldA))
                   /\ Returned.entryWrites = n
                   /\ last.writes = n

\* A scope binding a buffer and enabling blending, both new to the cache,
\* has been entered and left.
C5_Witness ==
    /\ last.op = "return"
    /\ Returned.chain = <<ArrayBufferSetting(Wrapper("b1", 0)), BlendSetting(TRUE)>>
    /\ Len(Returned.entry) = 2
    /\ Len(last.calls) = 2

\* ------------------------------------------------------------------------
\* C6
\* ------------------------------------------------------------------------
SameSlot(a, b) ==
    /\ a.kind = b.kind
    /\ a.kind \in SlotKinds
    /\ a.kind = "texture" => a.index = b.index

\* The calls that put value a back in its slot of the context
SlotCall(a) ==
    IF a.kind = "texture"
    THEN Call("bind_texture", a.index, "", a.res.handle)
    ELSE SetCall(a)

\* C6: when a scope applying an aspect returns into an outer scope that
\* applied an aspect on the same slot, cache and context hold the outer
\* value again; when any scope returns, every slot it names holds, in
\* cache and context, the value it had before the scope was entered; and
\* a Setting chaining two aspects on one slot leaves the inner one by
\* setting the outer value and then the outer one by setting the value
\* from before the call.
C6_NestedOverride ==
    last.op = "return" =>
        /\ (/\ stack # <<>>
            /\ Len(Returned.chain) = 1
            /\ Len(Top.chain) = 1
            /\ SameSlot(Returned.chain[1], Top.chain[1])) =>
               /\ CacheSlot(cache, Top.chain[1]) = Wanted(Top.chain[1])
               /\ CtxSlot(ctx, Top.chain[1]) = Wanted(Top.chain[1])
        /\ \A i \in DOMAIN Returned.chain :
              Returned.chain[i].kind \in SlotKinds =>
                 /\ CacheSlot(cache, Returned.chain[i])
                      = CacheSlot(Returned.pre.cache, Returned.chain[i])
                 /\ CtxSlot(ctx, Returned.chain[i])
                      = CtxSlot(Returned.pre.ctx, Returned.chain[i])
        /\ (/\ Len(Returned.chain) = 2
            /\ SameSlot(Returned.chain[1], Returned.chain[2])) =>
               LET outer == Returned.chain[1]
                   inner == Returned.chain[2]
                   before == CacheSlot(Returned.pre.cache, outer)
                   old == IF outer.kind = "texture"
                          THEN TextureSetting(outer.index,
                                              Returned.pre.cache.textures[outer.index])
                          ELSE get_cached(Returned.pre.cache, outer.kind)
               IN  last.calls =
                     Sel(outer.kind = "texture" \/ Wanted(inner) # Wanted(outer),
                         SlotCall(outer))
                     \o Sel(outer.kind = "texture" \/ Wanted(outer) # before,
                            SlotCall(old))

\* A scope binding t2 at unit 0 has returned into a running scope that
\* binds t1 at unit 0.
C6_Witness ==
    /\ last.op = "return"
    /\ stack # <<>>
    /\ Returned.chain = <<TextureSetting(0, Wrapper("t2", 0))>>
    /\ Top.chain = <<TextureSetting(0, Wrapper("t1", 0))>>

\* ------------------------------------------------------------------------
\* C7
\* ------------------------------------------------------------------------
\* C7: whenever a work closure is running or no apply is in progress, the
\* cache holds for blend, depth test, active unit, array buffer and each
\* of the 16 texture units the value the context holds.
C7_CacheReflectsContext == Agree(cache, ctx)

\* A work closure is running with blending on and a texture bound.
C7_Witness ==
    /\ stack # <<>>
    /\ last.op = "apply"
    /\ cache.blend
    /\ cache.textures[1].handle = "t1"

\* ------------------------------------------------------------------------
\* C8
\* ------------------------------------------------------------------------
\* The value an aspect asks for is the one cache and context hold (for a
\* filter aspect: the one the texture's filter cell holds).
InEffect(a) ==
    CASE a.kind = "texture_filter" -> filter[a.res.handle] = a.filter
      [] a.kind = "texture" ->
           /\ a.index < TEXTURES_COUNT
           /\ cache.textures[a.index].handle = a.res.handle
           /\ ctx.textures[a.index] = a.res.handle
      [] OTHER -> CacheSlot(cache, a) = Wanted(a) /\ CtxSlot(ctx, a) = Wanted(a)

\* No aspect chained after the i-th names the slot (or the texture whose
\* filter) the i-th names.
LastOnSlot(chain, i) ==
    \A j \in DOMAIN chain :
        j > i =>
           /\ ~SameSlot(chain[i], chain[j])
           /\ ~(/\ chain[i].kind = "texture_filter"
                /\ chain[j].kind = "texture_filter"
                /\ chain[i].res.handle = chain[j].res.handle)

InRange(chain) ==
    \A i \in DOMAIN chain :
        chain[i].kind = "texture" => chain[i].index < TEXTURES_COUNT

\* C8 as stated: for any Setting, Gl::apply calls work exactly once, with
\* every aspect of the Setting in effect, and returns what work returned.
C8_OnceWithEveryAspect ==
    /\ last.op = "apply" =>
           /\ Top.invoked = 1
           /\ \A i \in DOMAIN last.chain : InEffect(last.chain[i])
    /\ last.op = "apply_panic" => last.frames[Len(last.frames)].invoked = 1
    /\ last.op = "return" => last.result = last.work

\* C8 amended: for any Setting whose texture units are all below 16,
\* Gl::apply calls work exactly once, with, for every slot the Setting
\* names, the aspect chained last on that slot in effect, and returns what
\* work returned.
C8_Once ==
    /\ last.op = "apply" =>
           /\ Top.invoked = 1
           /\ \A i \in DOMAIN last.chain :
                 LastOnSlot(last.chain, i) => InEffect(last.chain[i])
    /\ (last.op = "apply_panic" /\ InRange(last.chain)) =>
           last.frames[Len(last.frames)].invoked = 1
    /\ last.op = "return" => last.result = last.work

\* Work has just been started under a Setting that turns blending on and
\* then off.
C8_Witness ==
    /\ last.op = "apply"
    /\ last.chain = <<BlendSetting(TRUE), BlendSetting(FALSE)>>
    /\ Top.invoked = 1
    /\ ~cache.blend

\* ------------------------------------------------------------------------
\* C9
\* ------------------------------------------------------------------------
ParamCalls(calls) == SelectSeq(calls, LAMBDA c : c.fn = "tex_parameteri")

\* C9: set_filter(f) issues tex-parameter calls iff f differs from the
\* texture's cached filter, then exactly two (mag, then min, with f), and
\* none and no bind call otherwise; afterwards the cached filter is f.
C9_SetFilter ==
    last.op = "set_filter" =>
        LET a == last.chain[1]
            old == last.before.filter[a.res.handle]
        IN  /\ filter[a.res.handle] = a.filter
            /\ old = a.filter => last.calls = <<>>
            /\ old # a.filter =>
                   ParamCalls(last.calls) =
                      <<Call("tex_parameteri", 0, "TEXTURE_MAG_FILTER", a.filter),
                        Call("tex_parameteri", 0, "TEXTURE_MIN_FILTER", a.filter)>>

\* set_filter(Nearest) has run on a texture whose cached filter was Linear.
C9_Witness ==
    /\ last.op = "set_filter"
    /\ last.before.filter["t1"] = "Linear"
    /\ filter["t1"] = "Nearest"
    /\ Len(ParamCalls(last.calls)) = 2

\* ------------------------------------------------------------------------
\* C10
\* ------------------------------------------------------------------------
\* C10: a set_filter that changes the filter binds the texture at unit 0,
\* issues the two parameter calls, and rebinds what the cache held at
\* unit 0 before; it writes cache slot 0 twice and leaves cache and
\* context, every slot of them, as they were.
C10_SetFilterFrame ==
    (/\ last.op = "set_filter"
     /\ last.before.filter[last.chain[1].res.handle] # last.chain[1].filter) =>
        LET a == last.chain[1]
        IN  /\ last.calls =
                  <<Call("bind_texture", 0, "", a.res.handle),
                    Call("tex_parameteri", 0, "TEXTURE_MAG_FILTER", a.filter),
                    Call("tex_parameteri", 0, "TEXTURE_MIN_FILTER", a.filter),
                    Call("bind_texture", 0, "", last.before.cache.textures[0].handle)>>
            /\ last.writes = 2
            /\ cache = last.before.cache
            /\ ctx = last.before.ctx

\* The filter of t1 was changed while t2 was bound at unit 0 and t1 at
\* unit 1.
C10_Witness ==
    /\ last.op = "set_filter"
    /\ last.before.filter["t1"] # filter["t1"]
    /\ cache.textures[0].handle = "t2"
    /\ cache.textures[1].handle = "t1"

\* ------------------------------------------------------------------------
\* C11
\* ------------------------------------------------------------------------
\* C11: writing to buffer B while another buffer A, or none, is the bound
\* array buffer issues exactly bind(B), upload, bind(A); B is the buffer
\* bound in cache and context at the upload; afterwards cache and context
\* hold A again.
C11_WriteBinding ==
    (/\ last.op = "write"
     /\ last.chain[1].res.handle # last.before.cache.array_buffer.handle) =>
        LET B == last.chain[1].res.handle
            A == last.before.cache.array_buffer.handle
        IN  /\ last.calls = <<Call("bind_buffer", 0, "ARRAY_BUFFER", B),
                              Call("buffer_data", 0, "ARRAY_BUFFER", B),
                              Call("bind_buffer", 0, "ARRAY_BUFFER", A)>>
            /\ \E i \in DOMAIN last.events :
                  /\ last.events[i].ev = "upload"
                  /\ last.events[i].a.res.handle = B
            /\ cache = last.before.cache
            /\ ctx = last.before.ctx
            /\ ctx.array_buffer = A

\* b2 has been written while b1 was the bound array buffer.
C11_Witness ==
    /\ last.op = "write"
    /\ last.chain[1].res.handle = "b2"
    /\ cache.array_buffer.handle = "b1"
    /\ Len(last.calls) = 3

\* ------------------------------------------------------------------------
\* C13
\* ------------------------------------------------------------------------
\* The position of the first texture aspect whose unit is out of range
FirstOutOfRange(chain) ==
    CHOOSE i \in DOMAIN chain :
        /\ chain[i].kind = "texture" /\ chain[i].index >= TEXTURES_COUNT
        /\ \A j \in 1 .. (i - 1) :
              ~(chain[j].kind = "texture" /\ chain[j].index >= TEXTURES_COUNT)

\* C13: applying texture(unit, T) with unit >= 16 aborts before that aspect
\* writes a texture slot of the cache or issues a bind_texture call: the
\* only slot writes and binds are those of the aspects chained before it
\* (none if it is the only aspect), no call names a unit out of range, and
\* after the abort every cache slot equals the context's value.
C13_MisuseAborts ==
    last.op = "apply_panic" =>
        LET k == FirstOutOfRange(last.chain)
            before == SubSeq(last.chain, 1, k - 1)
        IN  /\ aborted
            /\ \A i \in DOMAIN last.calls : last.calls[i].unit < TEXTURES_COUNT
            /\ (\A j \in DOMAIN before : before[j].kind # "texture_filter") =>
                   /\ Len(BindCalls(last.calls))
                        = Cardinality({j \in DOMAIN before : before[j].kind = "texture"})
                   /\ last.writes <= Len(before)
            /\ k = 1 =>
                   /\ last.calls = <<>>
                   /\ last.writes = 0
                   /\ cache = last.before.cache
                   /\ ctx = last.before.ctx
            /\ Agree(cache, ctx)

\* A Setting whose only aspect binds a texture at unit 16 has been applied
\* inside a scope that binds a texture at unit 0.
C13_Witness ==
    /\ last.op = "apply_panic"
    /\ Len(last.chain) = 1
    /\ last.chain[1].index = TEXTURES_COUNT
    /\ cache.textures[0].handle = "t1"

\* ------------------------------------------------------------------------
\* C14
\* ------------------------------------------------------------------------
CreateFailed == last.op \in {"new_buffer_panic", "new_texture_panic"}

\* C14: when the context yields no handle, ArrayBuffer::new / Texture::new
\* hands a failure result to its caller, which goes on running with the
\* calls it has in progress; nothing but the create call is issued and the
\* cache is not modified.
C14_FailureResult ==
    CreateFailed =>
        /\ ~aborted
        /\ stack = last.frames
        /\ Len(last.calls) = 1
        /\ last.calls[1].fn \in {"create_buffer", "create_texture"}
        /\ last.writes = 0
        /\ cache = last.before.cache

\* ------------------------------------------------------------------------
\* C15
\* ------------------------------------------------------------------------
\* C15: applying the empty Setting issues no context call and writes
\* nothing to the cache, on the way in and on the way out; it runs work
\* once and returns what work returned.
C15_EmptySetting ==
    /\ (last.op = "apply" /\ last.chain = <<>>) =>
           /\ last.calls = <<>>
           /\ last.writes = 0
           /\ Now = last.before
           /\ Top.invoked = 1
    /\ (last.op = "return" /\ Returned.chain = <<>>) =>
           /\ Returned.entry = <<>>
           /\ Returned.entryWrites = 0
           /\ last.calls = <<>>
           /\ last.writes = 0
           /\ Now = last.before
           /\ last.result = last.work

\* The empty Setting has been applied inside a scope with blending on,
\* and its work has returned.
C15_Witness ==
    /\ last.op = "return"
    /\ Returned.chain = <<>>
    /\ stack # <<>>
    /\ cache.blend

\* ------------------------------------------------------------------------
\* C16
\* ------------------------------------------------------------------------
\* Nothing has been created or applied yet.
Fresh ==
    /\ \A h \in TextureHandles : filter[h] = "absent"
    /\ buffers = {}
    /\ stack = <<>>
    /\ ~aborted
    /\ last.op = "idle"

\* C16: the cache of a newly constructed Gl has blend off, depth test off,
\* active unit 0, no array buffer and none in each of exactly 16 texture
\* slots; the cached filter of a newly created texture is Linear.
C16_InitialState ==
    /\ Fresh =>
           /\ cache.blend = FALSE
           /\ cache.depth = FALSE
           /\ cache.active_texture = 0
           /\ cache.array_buffer.handle = "none"
           /\ DOMAIN cache.textures = 0 .. 15
           /\ Cardinality(DOMAIN cache.textures) = 16
           /\ \A u \in DOMAIN cache.textures : cache.textures[u].handle = "none"
    /\ last.op = "new_texture" =>
           /\ last.before.filter[last.chain[1].res.handle] = "absent"
           /\ filter[last.chain[1].res.handle] = "Linear"

\* The first texture has just been created on a Gl with nothing bound.
C16_Witness ==
    /\ last.op = "new_texture"
    /\ last.chain[1].res.handle = "t1"
    /\ filter["t1"] = "Linear"
    /\ stack = <<>>

\* ------------------------------------------------------------------------
\* C17
\* ------------------------------------------------------------------------
\* Every aspect of the chain names the slot the first one names.
OneSlot(chain) ==
    /\ Len(chain) >= 2
    /\ \A i \in DOMAIN chain : SameSlot(chain[1], chain[i])
    /\ chain[1].kind = "texture" => chain[1].index < TEXTURES_COUNT

\* The value in effect on the slot after i aspects of the chain have been
\* entered from cache c: the one the cache held for i = 0.
InForce(chain, c, i) ==
    IF i = 0
    THEN (IF chain[1].kind = "texture"
          THEN TextureSetting(chain[1].index, c.textures[chain[1].index])
          ELSE get_cached(c, chain[1].kind))
    ELSE chain[i]

\* The calls that unwind a one-slot chain: the i-th aspect, innermost
\* first, puts back the value in force before it (a cached aspect only if
\* that value differs from its own).
Unwinding(chain, c) ==
    LET n == Len(chain)
        step(k) == LET i == n + 1 - k
                   IN  [need |-> \/ chain[1].kind = "texture"
                                 \/ Wanted(InForce(chain, c, i))
                                      # Wanted(InForce(chain, c, i - 1)),
                        call |-> SlotCall(InForce(chain, c, i - 1))]
        needed == SelectSeq([k \in 1 .. n |-> step(k)], LAMBDA x : x.need)
    IN  [k \in 1 .. Len(needed) |-> needed[k].call]

\* C17: when a Setting chains two or more aspects on one slot, cache and
\* context hold the value of the last one while work runs, and leaving
\* puts back each intermediate value in exact reverse order, ending at the
\* value from before the call.
C17_LastWins ==
    /\ (last.op = "apply" /\ OneSlot(last.chain)) =>
           /\ CacheSlot(cache, last.chain[1]) = Wanted(last.chain[Len(last.chain)])
           /\ CtxSlot(ctx, last.chain[1]) = Wanted(last.chain[Len(last.chain)])
    /\ (last.op = "return" /\ OneSlot(Returned.chain)) =>
           /\ last.calls = Unwinding(Returned.chain, Returned.pre.cache)
           /\ CacheSlot(cache, Returned.chain[1])
                = CacheSlot(Returned.pre.cache, Returned.chain[1])
           /\ CtxSlot(ctx, Returned.chain[1])
                = CtxSlot(Returned.pre.ctx, Returned.chain[1])

\* A Setting binding t1 and then t2 at unit 0 has been left.
C17_Witness ==
    /\ last.op = "return"
    /\ Returned.chain = <<TextureSetting(0, Wrapper("t1", 0)),
                          TextureSetting(0, Wrapper("t2", 0))>>
    /\ Len(last.calls) = 2

\* ------------------------------------------------------------------------
\* C18
\* ------------------------------------------------------------------------
IsFilter(a) == a.kind = "texture_filter"

FilterCalls(f) ==
    <<Call("tex_parameteri", 0, "TEXTURE_MAG_FILTER", f),
      Call("tex_parameteri", 0, "TEXTURE_MIN_FILTER", f)>>

\* C18 as stated: while the work of a Setting with texture_filter(T, f)
\* runs, T's cached filter is f; after the apply returns it is the filter
\* T had on entry; if f equals that filter neither entry nor exit issues a
\* context call, and otherwise each issues exactly two tex-parameter calls.
C18_ScopedFilterAlways ==
    /\ \A i \in DOMAIN stack : \A j \in DOMAIN stack[i].chain :
          IsFilter(stack[i].chain[j]) =>
             filter[stack[i].chain[j].res.handle] = stack[i].chain[j].filter
    /\ (last.op = "return" /\ Len(Returned.chain) = 1 /\ IsFilter(Returned.chain[1])) =>
          LET a == Returned.chain[1]
              old == Returned.pre.filter[a.res.handle]
          IN  /\ filter[a.res.handle] = old
              /\ a.filter = old => Returned.entry = <<>> /\ last.calls = <<>>
              /\ a.filter # old =>
                     /\ Len(ParamCalls(Returned.entry)) = 2
                     /\ Len(ParamCalls(last.calls)) = 2

\* No aspect applied after the j-th of the i-th running call scopes the
\* filter of the same texture.
InnermostFilter(i, j) ==
    /\ \A k \in DOMAIN stack[i].chain :
          (k > j /\ IsFilter(stack[i].chain[k])) =>
             stack[i].chain[k].res.handle # stack[i].chain[j].res.handle
    /\ \A n \in DOMAIN stack :
          n > i => ~NamesFilterOf(stack[n].chain, stack[i].chain[j].res.handle)

\* C18 amended: while the work of a Setting with texture_filter(T, f) runs,
\* T's cached filter is f as long as work has not called set_filter on T
\* and no aspect applied later (chained after it, or in a nested apply
\* still running) scopes T's filter; after the apply returns normally T's
\* filter is the one it had on entry; and if work called no set_filter on
\* T, a Setting made of that one aspect issues no context call on entry
\* and exit when f equals the filter on entry, and otherwise the two
\* tex-parameter calls for f on entry and the two for the previous filter
\* on exit.
C18_ScopedFilter ==
    /\ \A i \in DOMAIN stack : \A j \in DOMAIN stack[i].chain :
          (/\ IsFilter(stack[i].chain[j])
           /\ stack[i].chain[j].res.handle \notin stack[i].filtered
           /\ InnermostFilter(i, j)) =>
             filter[stack[i].chain[j].res.handle] = stack[i].chain[j].filter
    /\ last.op = "return" =>
          \A j \in DOMAIN Returned.chain :
             IsFilter(Returned.chain[j]) =>
                filter[Returned.chain[j].res.handle]
                  = Returned.pre.filter[Returned.chain[j].res.handle]
    /\ (/\ last.op = "return"
        /\ Len(Returned.chain) = 1
        /\ IsFilter(Returned.chain[1])
        /\ Returned.chain[1].res.handle \notin Returned.filtered) =>
          LET a == Returned.chain[1]
              old == Returned.pre.filter[a.res.handle]
          IN  /\ a.filter = old => Returned.entry = <<>> /\ last.calls = <<>>
              /\ a.filter # old =>
                     /\ ParamCalls(Returned.entry) = FilterCalls(a.filter)
                     /\ ParamCalls(last.calls) = FilterCalls(old)

\* A scope setting the filter of t1 to Nearest, entered when it was
\* Linear, has been left.
C18_Witness ==
    /\ last.op = "return"
    /\ Returned.chain = <<TextureFilterSetting(Wrapper("t1", 0), "Nearest")>>
    /\ Returned.pre.filter["t1"] = "Linear"
    /\ "t1" \notin Returned.filtered
    /\ filter["t1"] = "Linear"

\* ------------------------------------------------------------------------
\* C19
\* ------------------------------------------------------------------------
\* The call sets the slot the aspect names.
CallNames(c, a) ==
    CASE a.kind = "blend" -> c.fn \in {"enable", "disable"} /\ c.arg = "BLEND"
      [] a.kind = "depth" -> c.fn \in {"enable", "disable"} /\ c.arg = "DEPTH_TEST"
      [] a.kind = "array_buffer" -> c.fn = "bind_buffer"
      [] a.kind = "texture" -> c.fn = "bind_texture" /\ c.unit = a.index
      [] OTHER -> FALSE

Names(chain, kind) == \E i \in DOMAIN chain : chain[i].kind = kind

NamesUnit(chain, u) ==
    \E i \in DOMAIN chain : chain[i].kind = "texture" /\ chain[i].index = u

\* Entering or leaving the chain issued only calls for the slots it names
\* and changed no other slot of cache and context.
FrameOf(chain, calls, c0, x0) ==
    /\ \A i \in DOMAIN calls : \E j \in DOMAIN chain : CallNames(calls[i], chain[j])
    /\ ~Names(chain, "blend") => cache.blend = c0.blend /\ ctx.blend = x0.blend
    /\ ~Names(chain, "depth") => cache.depth = c0.depth /\ ctx.depth = x0.depth
    /\ ~Names(chain, "array_buffer") =>
          /\ cache.array_buffer = c0.array_buffer
          /\ ctx.array_buffer = x0.array_buffer
    /\ \A u \in Units :
          ~NamesUnit(chain, u) =>
             /\ cache.textures[u] = c0.textures[u]
             /\ ctx.textures[u] = x0.textures[u]

\* C19: entering or leaving a Setting made only of blend, depth_test,
\* array_buffer and texture aspects issues context calls only for the
\* slots it names, writes the cache at most once per aspect, and leaves
\* every other slot of cache and context as it was; and no operation
\* changes the active texture unit from 0 or issues an active_texture call.
C19_Frame ==
    /\ (/\ last.op \in {"apply", "apply_panic", "return"}
        /\ \A i \in DOMAIN last.chain : ~IsFilter(last.chain[i])) =>
           /\ FrameOf(last.chain, last.calls, last.before.cache, last.before.ctx)
           /\ last.writes <= Len(last.chain)
    /\ cache.active_texture = 0
    /\ ctx.active_texture = 0
    /\ \A i \in DOMAIN last.calls : last.calls[i].fn # "active_texture"

\* A texture has been bound at unit 1 inside a scope that binds another
\* at unit 0.
C19_Witness ==
    /\ last.op = "apply"
    /\ last.chain = <<TextureSetting(1, Wrapper("t1", 0))>>
    /\ cache.textures[0].handle = "t2"
    /\ Len(last.calls) = 1

\* ------------------------------------------------------------------------
\* C12
\* ------------------------------------------------------------------------
\* The resource has been created.
Created(h) == h \in buffers \cup Textures

\* The wrappers of the resource Settings of running calls hold
SettingClones(h) ==
    UNION {{<<k, i>> : i \in {j \in DOMAIN stack[k].chain :
                                stack[k].chain[j].res.handle = h}} :
           k \in DOMAIN stack}

\* The wrappers of the resource running applies hold in their locals
LocalClones(h) ==
    UNION {{<<k, i>> : i \in {j \in DOMAIN stack[k].saved :
                                Kept(stack[k].chain[j],
                                     stack[k].saved[j]).handle = h}} :
           k \in DOMAIN stack}

\* The wrappers of the resource the cache holds
CacheClones(c, h) ==
    {u \in Units : c.textures[u].handle = h}
    \cup {u \in {TEXTURES_COUNT} : c.array_buffer.handle = h}

\* The number of wrappers of the resource in existence: the caller's,
\* the cache's, and those of the running calls.
Holders(h) ==
    Cardinality({w \in held : w.handle = h})
    + Cardinality(CacheClones(cache, h))
    + Cardinality(SettingClones(h))
    + Cardinality(LocalClones(h))

\* C12: for every buffer and texture the strong count equals the number
\* of wrappers in existence (the caller's, those held by Settings and
\* locals of running calls, and those in the cache); the delete call for
\* its handle has been issued at most once, and it has been issued
\* exactly when the resource was created and no wrapper of it exists any
\* more; an operation issues the delete call only for a resource whose
\* last wrapper it dropped.
C12_DestroyedOnce ==
    /\ \A h \in Handles :
          /\ rc[h] = Holders(h)
          /\ deletes[h] <= 1
          /\ deletes[h] = 1 <=> (Created(h) /\ Holders(h) = 0)
    /\ \A i \in DOMAIN last.drops :
          /\ Holders(last.drops[i].val) = 0
          /\ \A j \in DOMAIN last.drops :
                last.drops[j].val = last.drops[i].val => j = i

\* The caller has dropped its last wrapper of the first buffer at the
\* top level while it holds the second buffer, and the first was deleted.
C12_Witness ==
    /\ last.op = "release"
    /\ stack = <<>>
    /\ Len(last.drops) = 1
    /\ last.drops[1].fn = "delete_buffer"
    /\ last.drops[1].val = "b1"
    /\ "b2" \in HeldHandles

\* ------------------------------------------------------------------------
\* C20
\* ------------------------------------------------------------------------
\* The handle is bound in the context for some aspect.
Bound(x, h) == x.array_buffer = h \/ \E u \in Units : x.textures[u] = h

\* The handle is recorded in the cache for some aspect.
Recorded(c, h) == CacheClones(c, h) # {}

\* C20: a delete call is never issued for a handle that the context has
\* bound or the cache records at that moment, and no handle that is
\* bound or recorded has been deleted; dropping the caller's wrappers
\* inside a scope that binds the resource issues no delete call, and the
\* delete calls a returning Gl::apply issues come after all of its
\* context calls, with the cache and the context as the exit left them.
C20_NoDeleteWhileBound ==
    /\ \A i \in DOMAIN last.drops :
          /\ ~Bound(last.drops[i].ctx, last.drops[i].val)
          /\ ~Recorded(last.drops[i].cache, last.drops[i].val)
    /\ \A h \in Handles : Bound(ctx, h) \/ Recorded(cache, h) => deletes[h] = 0
    /\ last.op = "release" =>
          \A i \in DOMAIN last.drops :
             ~Bound(last.before.ctx, last.drops[i].val)
    /\ last.op = "return" =>
          \A i \in DOMAIN last.drops :
             /\ last.drops[i].at = Len(last.calls)
             /\ last.drops[i].ctx = ctx
             /\ last.drops[i].cache = cache

\* A scope that bound the first texture at unit 0 has returned after the
\* caller dropped every wrapper of it inside the scope: the exit rebound
\* the previous texture and the texture was then deleted.
C20_Witness ==
    /\ last.op = "return"
    /\ last.chain = <<TextureSetting(0, Wrapper("t1", 0))>>
    /\ Len(last.calls) = 1
    /\ last.calls[1] = Call("bind_texture", 0, "", "t2")
    /\ Len(last.drops) = 1
    /\ last.drops[1].fn = "delete_texture"
    /\ last.drops[1].val = "t1"
    /\ "t1" \notin HeldHandles

====
